---- MODULE Spec2Model ----
(***************************************************************************)
(* jsphere: the Sphere class of src/js/sphere.js (points on a sphere,      *)
(* transforms, z-sorted render pass) and the drag handlers main() wires to *)
(* the canvas.                                                             *)
(*                                                                         *)
(* Numbers.  The program computes in IEEE doubles over angles that are     *)
(* multiples of pi/10.  The model computes in exact integers: the angular  *)
(* sweep is taken in quarter turns (so every sine and cosine is -1, 0 or   *)
(* 1), and a drag step is modelled only when the division it causes is     *)
(* exact and the radius it leaves is positive (see Modelled).  On these    *)
(* inputs the model's arithmetic is the program's arithmetic, the dot size *)
(* stays positive, and the canvas accepts every arc drawn on it.           *)
(***************************************************************************)
EXTENDS Integers, Sequences, FiniteSets

VARIABLES
    sphere,      \* the Sphere object main() constructs
    frame,       \* the canvas: the circles of the last render pass, in order
    dragOrigin,  \* main()'s dragOrigin
    listeners,   \* the registered listeners <<target, event type, handler>>,
                 \* in the order of their registration
    last,        \* what the handlers of the last mouse event did
    events,      \* the number of mouse events delivered so far
    downs        \* the mousedowns on the canvas since the drag last ended

vars == <<sphere, frame, dragOrigin, listeners, last, events, downs>>

(***************************************************************************)
(* Bounds of the model.                                                    *)
(***************************************************************************)
\* clientX and clientY of a mouse event range over 0..MaxPos
MaxPos == 1
\* the radius handed to the constructor
R0 == 1
\* the number of mouse events a run delivers
MaxEvents == 3

(***************************************************************************)
(* Arithmetic helpers: Math.round, Math.sqrt, Math.cos, Math.sin on the    *)
(* values the model meets.                                                 *)
(***************************************************************************)
Abs(a) == IF a < 0 THEN -a ELSE a

\* floor(a / b) for b # 0
FloorDiv(a, b) == IF b > 0 THEN a \div b ELSE (-a) \div (-b)

\* a * num / den is an integer
Exact(a, num, den) == den # 0 /\ (a * num) % Abs(den) = 0

\* a * num / den, for an exact quotient
MulDiv(a, num, den) == FloorDiv(a * num, den)

\* Math.round(num / den): the nearest integer, halves rounded up
RoundDiv(num, den) == FloorDiv(2 * num + den, 2 * den)

\* Math.round(Math.sqrt(n)) for an integer n >= 0
RoundSqrt(n) ==
    CHOOSE k \in 0..(n + 1) :
        /\ 4 * n < (2 * k + 1) * (2 * k + 1)
        /\ (k = 0 \/ (2 * k - 1) * (2 * k - 1) <= 4 * n)

\* Math.cos and Math.sin of q quarter turns
CosQ(q) == CASE q % 4 = 0 -> 1 [] q % 4 = 1 -> 0 [] q % 4 = 2 -> -1 [] OTHER -> 0
SinQ(q) == CASE q % 4 = 0 -> 0 [] q % 4 = 1 -> 1 [] q % 4 = 2 -> 0 [] OTHER -> -1

(***************************************************************************)
(* Dot and the Sphere constructor.                                         *)
(***************************************************************************)
\* the angles 0, angstep, 2*angstep, ... below 2*pi, in quarter turns
AngSweep == <<0, 1, 2, 3>>

\* new Dot({x, y, z, fg}): the options object's fields
Dot(opts) == [x |-> opts.x, y |-> opts.y, z |-> opts.z, fg |-> opts.fg]

\* new Dot(a, b, c) with a number a: the destructuring parameter
\* {x=0, y=0, z=0, fg=true} finds no x, y, z or fg on a number, so every
\* field takes its default; b and c bind to no parameter
DotOfNumber(a, b, c) == [x |-> 0, y |-> 0, z |-> 0, fg |-> TRUE]

\* new Sphere({ctx, x, y, z, r, drawSpheres})
NewSphere(x, y, z, r, drawSpheres) ==
    [x |-> x, y |-> y, z |-> z, r |-> r,
     drawSpheres |-> drawSpheres,
     circleSize |-> 10,
     points |->
        [i \in 1..Len(AngSweep) |->
            [j \in 1..Len(AngSweep) |->
                Dot([x  |-> r * CosQ(AngSweep[i]) * SinQ(AngSweep[j]) + x,
                     y  |-> r * SinQ(AngSweep[i]) * SinQ(AngSweep[j]) + y,
                     z  |-> r * CosQ(AngSweep[j]) + z,
                     fg |-> CosQ(AngSweep[j]) > 0])]]]

\* the (i, j) of the surface points, 0-based as in the program's loops
Cells(s) ==
    {ij \in (0..(Len(s.points) - 1)) \X (0..(Len(s.points) - 1)) :
        ij[2] < Len(s.points[ij[1] + 1])}

PointAt(s, ij) == s.points[ij[1] + 1][ij[2] + 1]

\* f applied to every surface point (an array of arrays, as a tuple of tuples)
MapPoints(s, f(_)) ==
    [i \in 1..Len(s.points) |->
        [j \in 1..Len(s.points[i]) |-> f(s.points[i][j])] \o <<>>] \o <<>>

(***************************************************************************)
(* The render pass, Sphere.draw.                                           *)
(***************************************************************************)
\* FlatIndex with rows one slot short, so that each row's last point is
\* overwritten by the next row's first
FlatIndex_ShortRows(s, i, j) == (Len(s.points) - 1) * i + j

\* the slot of z_sorted that draw's double loop writes points[i][j] to
FlatIndex(s, i, j) == Len(s.points) * i + j

\* z_sorted after the double loop: slot k holds the point written there
\* last, which is the one of the greatest i, and in that row of the greatest j
Flatten(s) ==
    LET n          == Len(s.points)
        cols(i, k) == {j \in 0..(Len(s.points[i + 1]) - 1) : FlatIndex(s, i, j) = k}
        rows(k)    == {i \in 0..(n - 1) : cols(i, k) # {}}
        lastRow(k) == CHOOSE i \in rows(k) : \A o \in rows(k) : o <= i
        lastCol(k) == CHOOSE j \in cols(lastRow(k), k) :
                          \A o \in cols(lastRow(k), k) : o <= j
        top        == CHOOSE k \in 0..(n * n + n) :
                          rows(k) # {} /\ \A m \in (k + 1)..(n * n + n) : rows(m) = {}
    IN  [k \in 1..(top + 1) |-> s.points[lastRow(k - 1) + 1][lastCol(k - 1) + 1]]

\* one step of the stable sort under the comparator (a, b) -> b.z - a.z:
\* e goes behind every element it does not precede
RECURSIVE InsertByZ(_, _)
InsertByZ(sorted, e) ==
    IF sorted = <<>> THEN <<e>>
    ELSE IF Head(sorted).z - e.z < 0
         THEN <<e>> \o sorted
         ELSE <<Head(sorted)>> \o InsertByZ(Tail(sorted), e)

\* z_sorted.sort(function(a,b){return (b.z-a.z)})
RECURSIVE SortByZ(_)
SortByZ(seq) ==
    IF seq = <<>> THEN <<>>
    ELSE InsertByZ(SortByZ(SubSeq(seq, 1, Len(seq) - 1)), seq[Len(seq)])

\* z_sorted as the drawing loop reads it
ZSorted(s) == SortByZ(Append(Flatten(s), DotOfNumber(s.x, s.y, s.z)))

\* the gray level of a dot; a zero radius makes the quotient Infinity or NaN
Shade(s, p) ==
    IF s.r = 0 THEN "not finite" ELSE RoundDiv((p.z + s.r) * 250, s.r * 2)

\* the colour the loop picks for a dot
ColorOf(s, p) ==
    IF p.x = s.x /\ p.y = s.y /\ p.z = s.z
    THEN [css |-> "#27F", n |-> 0]
    ELSE [css |-> "rgb", n |-> Shade(s, p)]

\* the call the loop issues for a dot (z is kept to tell the order)
DrawCall(s, p) ==
    [fn     |-> IF s.drawSpheres THEN "fillCircleGradient" ELSE "fillCircle",
     x      |-> p.x,
     y      |-> p.y,
     radius |-> s.circleSize,
     color  |-> ColorOf(s, p),
     z      |-> p.z]

\* the calls of one render pass, in order
draw(s) ==
    LET z_sorted == ZSorted(s)
    IN  [p \in 1..Len(z_sorted) |-> DrawCall(s, z_sorted[p])]

(***************************************************************************)
(* The transforms.  Each yields the sphere it leaves, the frames it        *)
(* rendered (one per call of draw, in order) and whether it threw.         *)
(***************************************************************************)
\* a method that ran to its end, having called draw once, last
Returned(s) == [sphere |-> s, rendered |-> [k \in 1..1 |-> draw(s)], threw |-> FALSE]

\* a method that threw, leaving the sphere as s and having rendered nothing
Thrown(s) == [sphere |-> s, rendered |-> <<>>, threw |-> TRUE]

\* the signed length zoom and hiddenFun2 compute from a drag step
ZoomDelta(x, y) ==
    LET length == RoundSqrt(x * x + y * y)
    IN  IF x > 0 THEN length ELSE -length

\* zoom as the earlier revision (src/unnamed/part_000, Zoom) has it: the scale
\* is taken from the radius the sphere was constructed with
zoom_InitialRadius(s, x, y) ==
    LET num == R0 + ZoomDelta(x, y)
        den == R0
        scaled(p) == [p EXCEPT !.x = MulDiv(p.x, num, den),
                               !.y = MulDiv(p.y, num, den),
                               !.z = MulDiv(p.z, num, den)]
    IN  Returned([s EXCEPT !.x = MulDiv(s.x, num, den),
                           !.y = MulDiv(s.y, num, den),
                           !.z = MulDiv(s.z, num, den),
                           !.r = MulDiv(s.r, num, den),
                           !.circleSize = MulDiv(s.circleSize, num, den),
                           !.points = MapPoints(s, scaled)])

\* Sphere.zoom: scale = (this.r + delta) / this.r
zoom(s, x, y) ==
    LET num == s.r + ZoomDelta(x, y)
        den == s.r
        scaled(p) == [p EXCEPT !.x = MulDiv(p.x, num, den),
                               !.y = MulDiv(p.y, num, den),
                               !.z = MulDiv(p.z, num, den)]
    IN  Returned([s EXCEPT !.x = MulDiv(s.x, num, den),
                           !.y = MulDiv(s.y, num, den),
                           !.z = MulDiv(s.z, num, den),
                           !.r = MulDiv(s.r, num, den),
                           !.circleSize = MulDiv(s.circleSize, num, den),
                           !.points = MapPoints(s, scaled)])

\* Sphere.hiddenFun1
hiddenFun1(s, x, y) ==
    LET split(p) == [p EXCEPT !.x = p.x + (IF p.x > s.x THEN x ELSE -x),
                              !.y = p.y + (IF p.y > s.y THEN y ELSE -y)]
    IN  Returned([s EXCEPT !.r = s.r + RoundSqrt(x * x + y * y),
                           !.points = MapPoints(s, split)])

\* Sphere.hiddenFun2: its first statement reads r, a name bound nowhere in
\* scope (the radius is this.r), so the call ends in a ReferenceError before
\* any assignment
hiddenFun2(s, x, y) == Thrown(s)

\* pan that moves the points and leaves the centre where it was
pan_PointsOnly(s, x, y) ==
    LET moved(p) == [p EXCEPT !.x = p.x + x, !.y = p.y + y]
    IN  Returned([s EXCEPT !.points = MapPoints(s, moved)])

\* Sphere.pan
pan(s, x, y) ==
    LET moved(p) == [p EXCEPT !.x = p.x + x, !.y = p.y + y]
    IN  Returned([s EXCEPT !.points = MapPoints(s, moved),
                           !.x = s.x + x,
                           !.y = s.y + y])

\* rotateXZ that stores the new x before it computes the new z from it
rotateXZ_InPlace(s, q) ==
    LET turned(p) ==
            LET px   == p.x - s.x
                pz   == p.z - s.z
                newx == px * CosQ(q) - pz * SinQ(q)
            IN  [p EXCEPT !.x = newx + s.x,
                          !.z = newx * SinQ(q) + pz * CosQ(q) + s.z]
    IN  [s EXCEPT !.points = MapPoints(s, turned)]

\* Sphere.rotateXZ by q quarter turns
rotateXZ(s, q) ==
    LET turned(p) ==
            LET px == p.x - s.x
                pz == p.z - s.z
            IN  [p EXCEPT !.x = px * CosQ(q) - pz * SinQ(q) + s.x,
                          !.z = px * SinQ(q) + pz * CosQ(q) + s.z]
    IN  [s EXCEPT !.points = MapPoints(s, turned)]

\* rotateYZ that sets fg anew from the side of the centre the point lands on
rotateYZ_RecomputeFg(s, q) ==
    LET turned(p) ==
            LET py == p.y - s.y
                pz == p.z - s.z
            IN  [p EXCEPT !.y = py * CosQ(q) - pz * SinQ(q) + s.y,
                          !.z = py * SinQ(q) + pz * CosQ(q) + s.z,
                          !.fg = py * SinQ(q) + pz * CosQ(q) > 0]
    IN  [s EXCEPT !.points = MapPoints(s, turned)]

\* Sphere.rotateYZ by q quarter turns
rotateYZ(s, q) ==
    LET turned(p) ==
            LET py == p.y - s.y
                pz == p.z - s.z
            IN  [p EXCEPT !.y = py * CosQ(q) - pz * SinQ(q) + s.y,
                          !.z = py * SinQ(q) + pz * CosQ(q) + s.z]
    IN  [s EXCEPT !.points = MapPoints(s, turned)]

\* the angle ((Math.PI/2)/this.r)*d, in quarter turns
QuarterTurns(s, d) == FloorDiv(d, s.r)

\* Sphere.rotate
rotate(s, x, y) ==
    Returned(rotateYZ(rotateXZ(s, QuarterTurns(s, x)), QuarterTurns(s, y)))

Transforms == {"rotate", "pan", "zoom", "hiddenFun1", "hiddenFun2"}

\* the call sphere.<fn>(x, y)
Invoke(s, call) ==
    CASE call.fn = "zoom"       -> zoom(s, call.x, call.y)
      [] call.fn = "hiddenFun1" -> hiddenFun1(s, call.x, call.y)
      [] call.fn = "hiddenFun2" -> hiddenFun2(s, call.x, call.y)
      [] call.fn = "pan"        -> pan(s, call.x, call.y)
      [] OTHER                  -> rotate(s, call.x, call.y)

(***************************************************************************)
(* The inputs the model follows: those on which the program's divisions    *)
(* are exact and the radius stays positive.                                *)
(***************************************************************************)
Coords(s) ==
    {s.x, s.y, s.z}
        \cup UNION {{PointAt(s, ij).x, PointAt(s, ij).y, PointAt(s, ij).z} :
                        ij \in Cells(s)}

\* the division the call makes leaves integers
ExactCall(s, call) ==
    CASE call.fn = "zoom" ->
            \A v \in Coords(s) \cup {s.circleSize} :
                Exact(v, s.r + ZoomDelta(call.x, call.y), s.r)
      [] call.fn = "rotate" ->
            Exact(call.x, 1, s.r) /\ Exact(call.y, 1, s.r)
      [] OTHER -> TRUE

\* the radius the call leaves
RadiusAfter(s, call) ==
    CASE call.fn = "zoom"       -> s.r + ZoomDelta(call.x, call.y)
      [] call.fn = "hiddenFun1" -> s.r + RoundSqrt(call.x * call.x + call.y * call.y)
      [] OTHER                  -> s.r

\* the calls the model follows
Modelled(s, call) == ExactCall(s, call) /\ RadiusAfter(s, call) > 0

(***************************************************************************)
(* main(): the sphere, its first frame and the drag handlers.              *)
(***************************************************************************)
\* the centres (x, y, z) a sphere is constructed with
Centres == {<<0, 0, 0>>, <<R0, R0, 0>>, <<0, 0, R0>>}

Pos == 0..MaxPos

\* the modifier keys of a mouse event
Keys == [ctrlKey : BOOLEAN, metaKey : BOOLEAN, shiftKey : BOOLEAN, altKey : BOOLEAN]

\* what the last event did: the handlers that ran, the transform calls they
\* made, the number of render passes those ran, and whether a handler threw
Handled(event, handlers) ==
    [event |-> event, handlers |-> handlers, calls |-> <<>>, draws |-> 0,
     threw |-> FALSE]

\* the mouse events with their positions and modifier keys
MouseEvents == [clientX : Pos, clientY : Pos, keys : Keys]

\* target.addEventListener(type, handler): a listener already registered for
\* the target and type is not registered again
addEventListener(ls, l) ==
    IF \E i \in 1..Len(ls) : ls[i] = l THEN ls ELSE Append(ls, l)

\* target.removeEventListener(type, handler)
removeEventListener(ls, l) == SelectSeq(ls, LAMBDA m : m # l)

\* the calls of addEventListener, made in order
RECURSIVE AddAll(_, _)
AddAll(ls, new) ==
    IF new = <<>> THEN ls
    ELSE AddAll(addEventListener(ls, Head(new)), Tail(new))

\* the calls of removeEventListener, made in order
RECURSIVE RemoveAll(_, _)
RemoveAll(ls, old) ==
    IF old = <<>> THEN ls
    ELSE RemoveAll(removeEventListener(ls, Head(old)), Tail(old))

\* the number of times listener l is registered in ls
Registered(ls, l) == Cardinality({i \in 1..Len(ls) : ls[i] = l})

\* the listeners dragStartHandler adds
DragListeners ==
    <<<<"document", "mousemove", "dragHandler">>,
      <<"window", "mouseup", "dragStopHandler">>,
      <<"window", "mouseout", "dragStopHandler">>,
      <<"canvas", "mouseout", "stopPropagation">>,
      <<"body", "mouseout", "stopPropagation">>>>

\* dragStopHandler removing the mousemove listener from window, as it does
\* for mouseup and mouseout from document: not where it was added
StopRemoves_WrongTarget ==
    <<<<"window", "mousemove", "dragHandler">>,
      <<"document", "mouseup", "dragStopHandler">>,
      <<"document", "mouseout", "dragStopHandler">>,
      <<"canvas", "mouseout", "stopPropagation">>,
      <<"body", "mouseout", "stopPropagation">>>>

\* the listeners dragStopHandler removes
StopRemoves ==
    <<<<"document", "mousemove", "dragHandler">>,
      <<"document", "mouseup", "dragStopHandler">>,
      <<"document", "mouseout", "dragStopHandler">>,
      <<"canvas", "mouseout", "stopPropagation">>,
      <<"body", "mouseout", "stopPropagation">>>>

\* dragHandler as the earlier revision (src/unnamed/part_000) has it: the
\* first test reads ctrlKey alone
DragCalls_CtrlOnly(e, origin) ==
    LET dx == e.clientX - origin.x
        dy == e.clientY - origin.y
        call(fn) == <<[fn |-> fn, x |-> dx, y |-> dy]>>
    IN  IF e.keys.ctrlKey
        THEN IF e.keys.altKey THEN call("hiddenFun2") ELSE call("zoom")
        ELSE IF e.keys.shiftKey
             THEN IF e.keys.altKey THEN call("hiddenFun1") ELSE call("pan")
             ELSE call("rotate")

\* the transform calls dragHandler's if/else chain makes for event e
DragCalls(e, origin) ==
    LET dx == e.clientX - origin.x
        dy == e.clientY - origin.y
        call(fn) == <<[fn |-> fn, x |-> dx, y |-> dy]>>
    IN  IF e.keys.ctrlKey \/ e.keys.metaKey
        THEN IF e.keys.altKey THEN call("hiddenFun2") ELSE call("zoom")
        ELSE IF e.keys.shiftKey
             THEN IF e.keys.altKey THEN call("hiddenFun1") ELSE call("pan")
             ELSE call("rotate")

\* the calls run in order from sphere s; a throw ends the run
RECURSIVE RunCalls(_, _)
RunCalls(s, calls) ==
    IF calls = <<>> THEN [sphere |-> s, rendered |-> <<>>, threw |-> FALSE]
    ELSE LET first == Invoke(s, Head(calls))
         IN  IF first.threw THEN first
             ELSE LET rest == RunCalls(first.sphere, Tail(calls))
                      n    == Len(first.rendered)
                  IN  [sphere   |-> rest.sphere,
                       rendered |-> [k \in 1..(n + Len(rest.rendered)) |->
                                        IF k <= n THEN first.rendered[k]
                                        ELSE rest.rendered[k - n]],
                       threw    |-> rest.threw]

\* what one run of dragHandler leaves, given the outcome run of its calls: a
\* run that throws leaves dragOrigin as it was
AfterHandler(run, calls, origin, e) ==
    [sphere   |-> run.sphere,
     origin   |-> IF run.threw THEN origin
                  ELSE [set |-> TRUE, x |-> e.clientX, y |-> e.clientY],
     calls    |-> calls,
     rendered |-> run.rendered,
     threw    |-> run.threw]

\* one run of dragHandler for event e
OneHandler(s, origin, e) ==
    AfterHandler(RunCalls(s, DragCalls(e, origin)), DragCalls(e, origin),
                 origin, e)

\* the outcomes of the runs first and then rest
Join(first, rest) ==
    [sphere   |-> rest.sphere,
     origin   |-> rest.origin,
     calls    |-> first.calls \o rest.calls,
     rendered |-> [p \in 1..(Len(first.rendered) + Len(rest.rendered)) |->
                      IF p <= Len(first.rendered) THEN first.rendered[p]
                      ELSE rest.rendered[p - Len(first.rendered)]],
     threw    |-> first.threw \/ rest.threw]

\* dragHandler run n times for the one event e, once per registration:
\* each run reads the sphere and the dragOrigin the run before it left, and
\* a run that throws does not stop the runs after it
RECURSIVE RunHandlers(_, _, _, _)
RunHandlers(n, s, origin, e) ==
    IF n = 1 THEN OneHandler(s, origin, e)
    ELSE Join(OneHandler(s, origin, e),
              RunHandlers(n - 1, OneHandler(s, origin, e).sphere,
                          OneHandler(s, origin, e).origin, e))

\* the state a mousemove leaves when the n registered runs of dragHandler
\* had the outcome run
Moved(run, n) ==
    /\ sphere' = run.sphere
    /\ frame' = IF Len(run.rendered) = 0 THEN frame
                ELSE run.rendered[Len(run.rendered)]
    /\ dragOrigin' = run.origin
    /\ last' = [event |-> "mousemove",
                handlers |-> [i \in 1..n |-> "dragHandler"],
                calls |-> run.calls, draws |-> Len(run.rendered),
                threw |-> run.threw]

\* one more mouse event is delivered
Deliver == events < MaxEvents /\ events' = events + 1

Init ==
    /\ \E c \in Centres, drawSpheres \in BOOLEAN :
          sphere = NewSphere(c[1], c[2], c[3], R0, drawSpheres)
    /\ frame = draw(sphere)
    /\ dragOrigin = [set |-> FALSE, x |-> 0, y |-> 0]
    /\ listeners = <<<<"canvas", "mousedown", "dragStartHandler">>>>
    /\ last = [Handled("load", <<"main">>) EXCEPT !.draws = 1]
    /\ events = 0
    /\ downs = 0

\* mousedown on the canvas: dragStartHandler
dragStartHandler ==
    \E x \in Pos, y \in Pos :
        /\ Deliver
        /\ Registered(listeners, <<"canvas", "mousedown", "dragStartHandler">>) > 0
        /\ dragOrigin' = [set |-> TRUE, x |-> x, y |-> y]
        /\ listeners' = AddAll(listeners, DragListeners)
        /\ last' = Handled("mousedown", <<"dragStartHandler">>)
        /\ downs' = downs + 1
        /\ UNCHANGED <<sphere, frame>>

\* mousemove with dragHandler listening on the document: it runs once for
\* each time it is registered
dragHandler ==
    /\ Deliver
    /\ Registered(listeners, <<"document", "mousemove", "dragHandler">>) > 0
    /\ \E x \in Pos, y \in Pos :
        \E calls \in {DragCalls([clientX |-> x, clientY |-> y, keys |-> k],
                                dragOrigin) : k \in Keys} :
            /\ \A i \in 1..Len(calls) : Modelled(sphere, calls[i])
            /\ Moved(RunHandlers(
                        Registered(listeners,
                                   <<"document", "mousemove", "dragHandler">>),
                        sphere, dragOrigin,
                        CHOOSE m \in MouseEvents :
                            /\ m.clientX = x /\ m.clientY = y
                            /\ DragCalls(m, dragOrigin) = calls),
                     Registered(listeners,
                                <<"document", "mousemove", "dragHandler">>))
            /\ UNCHANGED <<listeners, downs>>

\* mousemove with no listener for it
mousemoveUnheard ==
    /\ Deliver
    /\ Registered(listeners, <<"document", "mousemove", "dragHandler">>) = 0
    /\ last' = Handled("mousemove", <<>>)
    /\ UNCHANGED <<sphere, frame, dragOrigin, listeners, downs>>

\* the event runs dragStopHandler
dragStopHandler(event) ==
    /\ last' = Handled(event, <<"dragStopHandler">>)
    /\ listeners' = RemoveAll(listeners, StopRemoves)
    /\ UNCHANGED <<sphere, frame, dragOrigin>>

\* the event meets no listener, or only stopPropagation
Unheard(event) ==
    /\ last' = Handled(event, <<>>)
    /\ UNCHANGED <<sphere, frame, dragOrigin, listeners>>

\* mouseup anywhere: it bubbles to window, and the button is up
mouseup ==
    /\ Deliver
    /\ downs' = 0
    /\ IF Registered(listeners, <<"window", "mouseup", "dragStopHandler">>) > 0
       THEN dragStopHandler("mouseup")
       ELSE Unheard("mouseup")

\* the elements a mouseout on target passes, innermost first, before window
BubblePath(target) ==
    CASE target = "canvas" -> <<"canvas", "body">>
      [] target = "body"   -> <<"body">>
      [] OTHER             -> <<>>

\* mouseout on the canvas, on the body or on the root element: it reaches
\* window unless a stopPropagation listener on its path stops it, and ends
\* the drag if dragStopHandler hears it there
mouseout ==
    \E target \in {"canvas", "body", "html"} :
        /\ Deliver
        /\ IF /\ \A i \in 1..Len(BubblePath(target)) :
                    Registered(listeners, <<BubblePath(target)[i], "mouseout",
                                            "stopPropagation">>) = 0
              /\ Registered(listeners,
                            <<"window", "mouseout", "dragStopHandler">>) > 0
           THEN downs' = 0 /\ dragStopHandler("mouseout")
           ELSE downs' = downs /\ Unheard("mouseout")

Next ==
    \/ dragStartHandler
    \/ dragHandler
    \/ mousemoveUnheard
    \/ mouseup
    \/ mouseout

Spec == Init /\ [][Next]_vars

(***************************************************************************)
(* Properties.                                                             *)
(***************************************************************************)
\* the last event was a mousemove that ran dragHandler
Dragged == last.handlers = <<"dragHandler">>

\* the last event was a mousemove whose dragHandler made the one call fn
DraggedWith(fn) ==
    Dragged /\ Len(last.calls) = 1 /\ last.calls[1].fn = fn

\* the displacements a drag step can have
Deltas == (-MaxPos)..MaxPos

\* the surface points' (x, y, z)
Position(p) == <<p.x, p.y, p.z>>

\* the transform the gesture table gives for modifier keys k; "unlisted" for
\* a combination the table has no row for
Gesture(k) ==
    CASE ~k.ctrlKey /\ ~k.metaKey /\ ~k.shiftKey /\ ~k.altKey     -> "rotate"
      [] ~k.ctrlKey /\ ~k.metaKey /\ k.shiftKey /\ ~k.altKey      -> "pan"
      [] (k.ctrlKey \/ k.metaKey) /\ ~k.shiftKey /\ ~k.altKey     -> "zoom"
      [] ~k.ctrlKey /\ ~k.metaKey /\ k.shiftKey /\ k.altKey       -> "hiddenFun1"
      [] (k.ctrlKey \/ k.metaKey) /\ ~k.shiftKey /\ k.altKey      -> "hiddenFun2"
      [] OTHER                                                    -> "unlisted"

\* C1: a mousemove during a drag invokes exactly one transform, with the
\* displacement since the drag origin, and the transform is the one the
\* gesture table gives: none -> rotate, Shift -> pan, Ctrl or Meta -> zoom,
\* Shift+Alt -> hiddenFun1, Ctrl or Meta with Alt -> hiddenFun2.
C1_OneTransformPerMove ==
    /\ \A e \in MouseEvents :
          LET calls == DragCalls(e, dragOrigin)
          IN  /\ Len(calls) = 1
              /\ calls[1].fn \in Transforms
              /\ Gesture(e.keys) # "unlisted" => calls[1].fn = Gesture(e.keys)
              /\ calls[1].x = e.clientX - dragOrigin.x
              /\ calls[1].y = e.clientY - dragOrigin.y
    /\ Dragged => Len(last.calls) = 1 /\ last.calls[1].fn \in Transforms

\* C1's case: a mousemove with Shift and Alt down has run hiddenFun1
C1_Witness == DraggedWith("hiddenFun1") /\ ~last.threw

\* C2: every transform ends in exactly one render pass, made after its
\* mutations, so the frame on the canvas is the frame of the sphere as the
\* transform left it.
C2_OneRenderPerTransform ==
    Dragged => last.draws = 1 /\ frame = draw(sphere)

\* C3: the render pass draws back to front: of two entries with different
\* z, the one with the lower z is drawn first.
C3_LowerZFirst ==
    \A p, q \in 1..Len(frame) : p < q => frame[p].z <= frame[q].z

\* C4: wherever the centre is, the render pass has an entry at the sphere's
\* centre (x, y, z), drawn in "#27F".
C4_CentreMarker ==
    \E k \in 1..Len(frame) :
        /\ Position(frame[k]) = <<sphere.x, sphere.y, sphere.z>>
        /\ frame[k].color.css = "#27F"

C6_ZoomFromCurrentRadius ==
    [][DraggedWith("zoom")' =>
        LET dx     == last'.calls[1].x
            dy     == last'.calls[1].y
            length == RoundSqrt(dx * dx + dy * dy)
            delta  == IF dx > 0 THEN length ELSE -length
            scaled(new, old) == new * sphere.r = old * (sphere.r + delta)
            s100   == NewSphere(0, 0, 0, 100, FALSE)
            s150   == zoom(s100, 50, 0).sphere
        IN  /\ sphere'.r = sphere.r + delta
            /\ scaled(sphere'.circleSize, sphere.circleSize)
            /\ scaled(sphere'.x, sphere.x)
            /\ scaled(sphere'.y, sphere.y)
            /\ scaled(sphere'.z, sphere.z)
            /\ \A ij \in Cells(sphere) :
                  /\ scaled(PointAt(sphere', ij).x, PointAt(sphere, ij).x)
                  /\ scaled(PointAt(sphere', ij).y, PointAt(sphere, ij).y)
                  /\ scaled(PointAt(sphere', ij).z, PointAt(sphere, ij).z)
            /\ s150.r = 150 /\ s150.circleSize = 15
            /\ \A ij \in Cells(s100) :
                  /\ 2 * PointAt(s150, ij).x = 3 * PointAt(s100, ij).x
                  /\ 2 * PointAt(s150, ij).y = 3 * PointAt(s100, ij).y
                  /\ 2 * PointAt(s150, ij).z = 3 * PointAt(s100, ij).z
    ]_vars

\* C6's case: a zoom made after an earlier zoom had changed the radius: a
\* zoom that shrank the sphere back to radius R0 and its dots back to 10,
\* which they had left only by an earlier zoom
C6_Witness ==
    /\ DraggedWith("zoom")
    /\ last.calls[1].x # 0 \/ last.calls[1].y # 0
    /\ sphere.r = R0
    /\ sphere.circleSize = 10

\* C7: pan(a, b) adds (a, b) to the centre and to every point and leaves
\* every z, the radius and the dot size alone; so pan(a, b) followed by
\* pan(c, d) leaves the sphere that pan(a + c, b + d) leaves.
C7_PanAdds ==
    [][DraggedWith("pan")' =>
        LET a == last'.calls[1].x
            b == last'.calls[1].y
        IN  /\ sphere'.x = sphere.x + a
            /\ sphere'.y = sphere.y + b
            /\ sphere'.z = sphere.z
            /\ sphere'.r = sphere.r
            /\ sphere'.circleSize = sphere.circleSize
            /\ \A ij \in Cells(sphere) :
                  /\ PointAt(sphere', ij).x = PointAt(sphere, ij).x + a
                  /\ PointAt(sphere', ij).y = PointAt(sphere, ij).y + b
                  /\ PointAt(sphere', ij).z = PointAt(sphere, ij).z
            /\ \A c \in Deltas, d \in Deltas :
                  pan(sphere', c, d).sphere = pan(sphere, a + c, b + d).sphere
    ]_vars

\* C7's case: a pan by a displacement that is not zero has acted
C7_Witness ==
    /\ DraggedWith("pan")
    /\ last.calls[1].x # 0 /\ last.calls[1].y # 0
    /\ events = MaxEvents

\* C8: hiddenFun2 adds the rounded drag length to r, multiplies the centre's
\* x and y and every point's x and y by (r + delta) / r for the r it found,
\* and leaves the centre's z, every point's z and the dot size alone.
C8_CigarZoom ==
    [][DraggedWith("hiddenFun2")' =>
        LET dx     == last'.calls[1].x
            dy     == last'.calls[1].y
            length == RoundSqrt(dx * dx + dy * dy)
            delta  == IF dx > 0 THEN length ELSE -length
            scaled(new, old) == new * sphere.r = old * (sphere.r + delta)
        IN  /\ sphere'.r = sphere.r + length
            /\ scaled(sphere'.x, sphere.x)
            /\ scaled(sphere'.y, sphere.y)
            /\ sphere'.z = sphere.z
            /\ sphere'.circleSize = sphere.circleSize
            /\ \A ij \in Cells(sphere) :
                  /\ scaled(PointAt(sphere', ij).x, PointAt(sphere, ij).x)
                  /\ scaled(PointAt(sphere', ij).y, PointAt(sphere, ij).y)
                  /\ PointAt(sphere', ij).z = PointAt(sphere, ij).z
    ]_vars

\* C9: no transform has a failure path: whatever the drag, the transform
\* dragHandler calls returns, and the handler goes on to move the drag
\* origin to the pointer.
C9_NoFailurePath ==
    [][Dragged' =>
        /\ ~last'.threw
        /\ \E x \in Pos, y \in Pos :
              /\ dragOrigin' = [set |-> TRUE, x |-> x, y |-> y]
              /\ last'.calls[1].x = x - dragOrigin.x
              /\ last'.calls[1].y = y - dragOrigin.y
    ]_vars

\* C10: for any centre and any r > 0, as long as the points lie within r of
\* the centre in z (as they do after rotate, pan and zoom), every surface
\* point is drawn with a gray level n in 0..250.
C10_GrayInRange ==
    (/\ sphere.r > 0
     /\ \A ij \in Cells(sphere) :
           Abs(PointAt(sphere, ij).z - sphere.z) <= sphere.r)
        => \A k \in 1..Len(frame) :
              frame[k].color.css = "rgb" => frame[k].color.n \in 0..250

\* the square of the distance of point p from the centre of sphere s
NormSq(s, p) ==
    (p.x - s.x) * (p.x - s.x) + (p.y - s.y) * (p.y - s.y)
        + (p.z - s.z) * (p.z - s.z)

\* every surface point of s lies at distance s.r from the centre of s
OnSphere(s) ==
    \A ij \in Cells(s) : NormSq(s, PointAt(s, ij)) = s.r * s.r

\* C11: rotate leaves the centre and r alone and keeps every point at the
\* distance from the centre it had; the constructor puts every point at
\* distance r, so a sphere whose points are at distance r still has them
\* there after a rotate.
C11_RotatePreservesNorm ==
    [][DraggedWith("rotate")' =>
        /\ sphere'.x = sphere.x /\ sphere'.y = sphere.y /\ sphere'.z = sphere.z
        /\ sphere'.r = sphere.r
        /\ \A ij \in Cells(sphere) :
              NormSq(sphere', PointAt(sphere', ij))
                  = NormSq(sphere, PointAt(sphere, ij))
        /\ \A c \in Centres : OnSphere(NewSphere(c[1], c[2], c[3], R0, FALSE))
        /\ OnSphere(sphere) => OnSphere(sphere')
    ]_vars

\* C11's case: a rotate about both axes has moved the points of a sphere
\* that had them at distance r, about a centre that is not the origin
C11_Witness ==
    /\ DraggedWith("rotate")
    /\ last.calls[1].x # 0 /\ last.calls[1].y # 0
    /\ sphere.x # 0
    /\ OnSphere(sphere)
    /\ sphere.points
          # NewSphere(sphere.x, sphere.y, sphere.z, sphere.r, FALSE).points

\* the sphere s with every surface point's fg negated
FlipFg(s) ==
    LET flipped(p) == [p EXCEPT !.fg = ~p.fg]
    IN  [s EXCEPT !.points = MapPoints(s, flipped)]

====
